---- MODULE Spec2Model ----
(***************************************************************************)
(* Binomial option pricing notebook (ValidusCaseStudy.ipynb).              *)
(*                                                                         *)
(* The notebook's functions compute with floating-point reals.  Here every *)
(* real is an exact rational <<numerator, denominator>> in lowest terms    *)
(* with a positive denominator, so that "equal to floating tolerance" is   *)
(* checked as exact equality of the quantities the code computes.          *)
(***************************************************************************)
EXTENDS Integers, Sequences, FiniteSets, TLC

\* ------------------------------------------------------------------ bounds
NegN == 2           \* period counts handed to a valuation start at -NegN
MaxN == 3           \* largest period count handed to a valuation
VDen == 4           \* step factors are n/VDen, n in 0..VDen
KDen == 2           \* strikes are n/KDen, n in -1..MaxKNum
MaxKNum == 4
MaxNMax == 6        \* largest period count handed to expectedMaxPrice
MaxM == 3           \* most instruments handed to vCalibrationMulti
MaxBlock == 2       \* longest block length of an instrument
MaxCNum == 3        \* instrument prices are n/CDen, n in 1..MaxCNum
CDen == 8           \* observed prices are n/CDen, n in -1..CDen+1

VARIABLES
    argN,   \* period count N the session's calls are made with
    argK,   \* strike K the session's calls are made with
    argV,   \* <<v1, v2>>: the step factors the calls are made with, v1 <= v2
    eur,    \* eur[s]: outcome of EuropeanCallValue(argN, argV[s], argK)
    amer,   \* outcome of AmericanCallValue(argN, argV[1], argK)
    fv,     \* fv[s]: vCalibration's price sum evaluated at argV[s]
    argC,   \* observed option price handed to vCalibration
    root,   \* outcome of vCalibration(argN, argK, argC)
    back,   \* outcome of EuropeanCallValue(argN, root, argK), the round trip
    pc,     \* position inside expectedMaxPrice / vCalibrationMulti
    res,    \* outcome of expectedMaxPrice / vCalibrationMulti
    loopJ,  \* expectedMaxPrice: the column j the current loop is at
    P1,     \* expectedMaxPrice: grid P1
    P2,     \* expectedMaxPrice: grid P2
    S,      \* expectedMaxPrice: grid S
    listN,  \* vCalibrationMulti: block lengths N
    listK,  \* vCalibrationMulti: strikes K
    listC,  \* vCalibrationMulti: observed prices C
    V,      \* vCalibrationMulti: array V of step factors
    loopI,  \* vCalibrationMulti: the for-loop variable i
    whileJ  \* vCalibrationMulti: the variable j, which f2 and g close over

argVars == <<argN, argK, argV, argC>>
valVars == <<eur, amer, fv>>
calVars == <<root, back>>
maxVars == <<pc, res, loopJ, P1, P2, S>>
mulVars == <<listN, listK, listC, V, loopI, whileJ>>
vars == <<argVars, valVars, calVars, maxVars, mulVars>>

\* ------------------------------------------------ exact rational arithmetic
Abs(x) == IF x < 0 THEN -x ELSE x

RECURSIVE GCD(_, _)
GCD(a, b) == IF b = 0 THEN a ELSE GCD(b, a % b)

Norm(n, d) ==
    LET g == GCD(Abs(n), d) IN <<n \div g, d \div g>>

Zero == <<0, 1>>
One == <<1, 1>>
FromInt(n) == <<n, 1>>

LCM(a, b) == (a \div GCD(a, b)) * b

RAdd(a, b) ==
    LET l == LCM(a[2], b[2])
    IN Norm(a[1] * (l \div a[2]) + b[1] * (l \div b[2]), l)

RNeg(a) == <<-a[1], a[2]>>

RSub(a, b) == RAdd(a, RNeg(b))

RMul(a, b) ==
    LET g1 == GCD(Abs(a[1]), b[2])
        g2 == GCD(Abs(b[1]), a[2])
    IN Norm((a[1] \div g1) * (b[1] \div g2), (a[2] \div g2) * (b[2] \div g1))

\* a / n for an integer n > 0
RDivInt(a, n) == RMul(a, <<1, n>>)

RLeq(a, b) ==
    LET l == LCM(a[2], b[2])
    IN a[1] * (l \div a[2]) <= b[1] * (l \div b[2])

RLt(a, b) == RLeq(a, b) /\ a # b

\* Python's max(a, b): the first argument unless the second is larger
RMax(a, b) == IF RLt(a, b) THEN b ELSE a

\* x ** e for an integer e >= 0 (0 ** 0 is 1, as in Python)
RECURSIVE RPow(_, _)
RPow(x, e) == IF e = 0 THEN One ELSE RMul(x, RPow(x, e - 1))

\* 2 ** e for any integer e (2 ** -1 is 0.5)
RECURSIVE Pow2(_)
Pow2(e) == IF e = 0 THEN 1 ELSE 2 * Pow2(e - 1)

RPow2(e) == IF e >= 0 THEN <<Pow2(e), 1>> ELSE <<1, Pow2(-e)>>

RDiv(a, b) == IF b[1] > 0 THEN RMul(a, <<b[2], b[1]>>) ELSE RMul(a, <<-b[2], -b[1]>>)

Sign(a) == IF a[1] > 0 THEN 1 ELSE IF a[1] < 0 THEN -1 ELSE 0

\* sum(term[k] for k in range(lo, hi)) over rationals (exact, so the order
\* of the additions does not matter; halving keeps the recursion shallow)
RECURSIVE RSumRange(_, _, _)
RSumRange(term, lo, hi) ==
    IF hi <= lo THEN Zero
    ELSE IF hi = lo + 1 THEN term[lo]
    ELSE LET mid == (lo + hi) \div 2
         IN RAdd(RSumRange(term, lo, mid), RSumRange(term, mid, hi))

\* sum(term[k] for k in range(n))
RSumTo(term, n) == RSumRange(term, 0, n)

\* scipy.special.comb(n, k) for integers 0 <= k <= n
RECURSIVE comb(_, _)
comb(n, k) ==
    IF k < 0 \/ k > n THEN 0
    ELSE IF k = 0 THEN 1
    ELSE (comb(n, k - 1) * (n - k + 1)) \div k

\* ------------------------------------------------------------ input domains
VGrid == {Norm(n, VDen) : n \in 0..VDen}
KGrid == {Norm(n, KDen) : n \in (-1)..MaxKNum}
CGrid == {Norm(n, CDen) : n \in (-1)..(CDen + 1)}
NGrid == (0 - NegN)..MaxN
\* the parameter domain the specification states (the code checks nothing)
ValidV(v) == RLt(Zero, v) /\ RLt(v, One)
ValidK(K) == RLeq(Zero, K)

\* --------------------------------------------------------------- outcomes
NoResult == [out |-> "none"]
Raise(e) == [out |-> e]
Return(x, G) == [out |-> "value", val |-> x, C |-> G]

\* np.zeros((N+1, N+1)), N >= -1
zeros(N) == [x \in (0..N) \X (0..N) |-> Zero]

\* mutant: the up-factor written as the down-factor
StockPriceDownOnly(v, i, j) == RMul(RPow(RSub(One, v), i), RPow(RSub(One, v), j - i))

\* price after i down-moves and j-i up-moves from a unit base price
StockPrice(v, i, j) == RMul(RPow(RSub(One, v), i), RPow(RAdd(One, v), j - i))

\* the risk-neutral probability
p == <<1, 2>>

\* ------------------------------------------------------ EuropeanCallValue
EuropeanPayoff(C, N, v, K) ==
    [x \in DOMAIN C |->
        IF x[2] = N THEN RMax(Zero, RSub(StockPrice(v, x[1], N), K)) ELSE C[x]]

EuropeanColumn(C, j) ==
    [x \in DOMAIN C |->
        IF x[2] = j /\ x[1] <= j
        THEN RAdd(RMul(p, C[<<x[1], j + 1>>]), RMul(RSub(One, p), C[<<x[1] + 1, j + 1>>]))
        ELSE C[x]]

RECURSIVE EuropeanBackward(_, _)
EuropeanBackward(C, j) ==
    IF j < 0 THEN C ELSE EuropeanBackward(EuropeanColumn(C, j), j - 1)

EuropeanCallValue(N, v, K) ==
    IF N + 1 < 0 THEN Raise("ValueError")
    ELSE IF N + 1 = 0 THEN Raise("IndexError")
    ELSE LET C == EuropeanBackward(EuropeanPayoff(zeros(N), N, v, K), N - 1)
         IN Return(C[<<0, 0>>], C)

\* ------------------------------------------------------ AmericanCallValue
AmericanPrices(C, v) ==
    [x \in DOMAIN C |-> IF x[1] <= x[2] THEN StockPrice(v, x[1], x[2]) ELSE C[x]]

AmericanPayoff(C, N, K) ==
    [x \in DOMAIN C |-> IF x[2] = N THEN RMax(Zero, RSub(C[x], K)) ELSE C[x]]

\* mutant: the early-exercise value without the strike
AmericanNodeNoStrike(cont, Cij, K) == RMax(cont, Cij)

AmericanNode(cont, Cij, K) == RMax(cont, RSub(Cij, K))

AmericanColumn(C, j, K) ==
    [x \in DOMAIN C |->
        IF x[2] = j /\ x[1] <= j
        THEN AmericanNode(RAdd(RMul(p, C[<<x[1], j + 1>>]),
                               RMul(RSub(One, p), C[<<x[1] + 1, j + 1>>])),
                          C[x], K)
        ELSE C[x]]

RECURSIVE AmericanBackward(_, _, _)
AmericanBackward(C, j, K) ==
    IF j < 0 THEN C ELSE AmericanBackward(AmericanColumn(C, j, K), j - 1, K)

AmericanCallValue(N, v, K) ==
    IF N + 1 < 0 THEN Raise("ValueError")
    ELSE IF N + 1 = 0 THEN Raise("IndexError")
    ELSE LET C == AmericanBackward(AmericanPayoff(AmericanPrices(zeros(N), v), N, K), N - 1, K)
         IN Return(C[<<0, 0>>], C)

\* ------------------------------------------- vCalibration's price function
\* sum(comb(N,j)*max(0,(1+v)**j * (1-v)**(N-j) - K) for j in range(N+1))/2**N
\* mutant: the terminal payoffs summed without their path counts
BinomialTermNoComb(N, v, K, j) ==
    RMax(Zero, RSub(RMul(RPow(RAdd(One, v), j), RPow(RSub(One, v), N - j)), K))

BinomialTerm(N, v, K, j) ==
    RMul(FromInt(comb(N, j)),
         RMax(Zero, RSub(RMul(RPow(RAdd(One, v), j), RPow(RSub(One, v), N - j)), K)))

BinomialPrice(N, v, K) ==
    LET term == [j \in 0..N |-> BinomialTerm(N, v, K, j)]
    IN RDiv(RSumTo(term, N + 1), RPow2(N))

\* mutant: the observed price is not subtracted
fNoTarget(N, K, C, v) == BinomialPrice(N, v, K)

\* f = lambda v: ... - C
f(N, K, C, v) == RSub(BinomialPrice(N, v, K), C)

\* --------------------------------------------------------------- brentq
\* scipy.optimize.brentq(F, 0, 1) with the bracket [0,1] sampled at the
\* step factors x/VDen: F[x] is the function's value at x/VDen.  It raises
\* ValueError when F has the same strict sign at both ends, returns an end
\* that is a zero, and otherwise returns a point within its tolerance (one
\* grid step) of a zero or of a sign change of F.
BrentqInterior(F) ==
    {x \in 0..VDen :
        \/ F[x] = Zero
        \/ x < VDen /\ Sign(F[x]) * Sign(F[x + 1]) < 0
        \/ x > 0 /\ Sign(F[x - 1]) * Sign(F[x]) < 0}

brentq(F) ==
    IF Sign(F[0]) * Sign(F[VDen]) > 0 THEN {Raise("ValueError")}
    ELSE IF F[0] = Zero THEN {Return(Zero, <<>>)}
    ELSE IF F[VDen] = Zero THEN {Return(One, <<>>)}
    ELSE {Return(Norm(x, VDen), <<>>) : x \in BrentqInterior(F)}

\* ------------------------------------------------------------ vCalibration
vCalibration(N, K, C) ==
    brentq([x \in 0..VDen |-> f(N, K, C, Norm(x, VDen))])

\* ------------------------------------------------- Dyck path enumeration
\* mutant: the central binomial coefficient, not divided by n+1
numberDyckPathsUndivided(n) == FromInt(comb(2 * n, n))

numberDyckPaths(n) == RDivInt(FromInt(comb(2 * n, n)), n + 1)

\* mutant: all Dyck paths counted in place of the primitive ones
numberPrimitiveDyckPathsAll(n) == RDivInt(FromInt(comb(2 * n, n)), n + 1)

numberPrimitiveDyckPaths(n) == RDivInt(FromInt(comb(2 * n - 2, n - 1)), n)

\* -------------------------------------------------------- expectedMaxPrice
Min(a, b) == IF a < b THEN a ELSE b

\* P1[0,0]=1; P1[0,1]=1; P1[0,2]=1 on np.zeros((N+1,N+1)), N >= 0: the
\* writes that precede the first out-of-range column take effect
P1Base(N) ==
    [x \in (0..N) \X (0..N) |-> IF x[1] = 0 /\ x[2] <= 2 THEN One ELSE Zero]

\* the first base-case write that addresses a column the grid does not have
P1BaseFails(N) == N < 2

\* one pass of "for i in range(N+1)" at column j of the forward loop
P1Column(P, N, j) ==
    [x \in DOMAIN P |->
        IF x[2] = j
        THEN LET kEnd == Min(x[1] + 1, (j - 1) \div 2 + 1)
                 term == [k \in 0..(kEnd - 1) |->
                            RMul(P[<<x[1] - k, j - 1 - 2 * k>>], numberDyckPaths(k))]
             IN RSumTo(term, kEnd)
        ELSE P[x]]

\* P1[:,j] = P1[:,j]/2**j for every j
P1Normalise(P) == [x \in DOMAIN P |-> RDiv(P[x], RPow2(x[2]))]

\* P2 = np.zeros((N+1,N+1)); P2[:,-1]=1
P2Last(N) == [x \in (0..N) \X (0..N) |-> IF x[2] = N THEN One ELSE Zero]

\* one pass of "for i in range(j,-1,-1)" at column j of the backward loop
P2Column(P, N, j) ==
    [x \in DOMAIN P |->
        IF x[2] = j /\ x[1] <= j
        THEN LET kEnd == (N - j) \div 2 + 1
                 term == [k \in 1..(kEnd - 1) |->
                            RMul(P[<<x[1] + k, j + 2 * k>>], numberPrimitiveDyckPaths(k))]
             IN RAdd(P[<<x[1] + 1, j + 1>>], RSumRange(term, 1, kEnd))
        ELSE P[x]]

\* P2[:,j] = P2[:,j]/2**(N-j) for every j
P2Normalise(P, N) == [x \in DOMAIN P |-> RDiv(P[x], RPow2(N - x[2]))]

\* the grid S of stock prices
StockGrid(N, v) ==
    [x \in (0..N) \X (0..N) |->
        IF x = <<0, 0>> THEN One
        ELSE IF x[2] >= 1 /\ x[1] <= x[2] THEN StockPrice(v, x[1], x[2])
        ELSE Zero]

\* np.sum(A*B*G) over the whole (N+1)x(N+1) grid
GridSum3(A, B, G, N) ==
    LET row == [i \in 0..N |->
                    RSumTo([j \in 0..N |->
                                RMul(RMul(A[<<i, j>>], B[<<i, j>>]), G[<<i, j>>])],
                           N + 1)]
    IN RSumTo(row, N + 1)

\* ------------------------------------------------------ vCalibrationMulti
\* Python lists and arrays are 0-based, the sequences here 1-based: N[j-1]
\* is Nl[j], V[0] is Vl[1].

\* f1 = lambda v: ..., which reads the loop variable i when it is called
f1(Nl, Kl, Cl, i, v) == f(Nl[i], Kl[i], Cl[i], v)

\* f2 = lambda v, t: ..., which reads the variable j when it is called: j is
\* the value the enclosing function's j has at the time of the call
f2(Nl, Kl, Vl, j, v, t) ==
    LET term == [i \in 0..Nl[j] |->
            RMul(FromInt(comb(Nl[j], i)),
                 RMax(Zero,
                      RSub(RMul(RMul(RPow(RAdd(One, Vl[1]), t),
                                     RPow(RSub(One, Vl[1]), Nl[1] - t)),
                                RMul(RPow(RAdd(One, v), i),
                                     RPow(RSub(One, v), Nl[j] - i))),
                           Kl[j])))]
    IN RDiv(RSumTo(term, Nl[j] + 1), RPow2(Nl[j]))

\* g = lambda v: ..., which reads j and i when it is called
g(Nl, Kl, Cl, Vl, j, i, v) ==
    LET term == [t \in 0..Nl[j] |-> RMul(FromInt(comb(Nl[j], t)), f2(Nl, Kl, Vl, j, v, t))]
    IN RSub(RDiv(RSumTo(term, Nl[j] + 1), RPow2(Nl[j])), Cl[i])

\* ------------------------------------------------- idle parts of the state
IdleValue ==
    /\ eur = [s \in 1..2 |-> NoResult]
    /\ amer = NoResult
    /\ fv = [s \in 1..2 |-> NoResult]

IdleCalibration ==
    /\ root = NoResult
    /\ back = NoResult

IdleMax ==
    /\ loopJ = 0
    /\ P1 = <<>>
    /\ P2 = <<>>
    /\ S = <<>>

IdleMulti ==
    /\ listN = <<>>
    /\ listK = <<>>
    /\ listC = <<>>
    /\ V = <<>>
    /\ loopI = 0
    /\ whileJ = 0

\* ================================================== valuation session
InitValue ==
    /\ argN \in NGrid
    /\ argK \in KGrid
    /\ argV \in {q \in VGrid \X VGrid : RLeq(q[1], q[2])}
    /\ argC = Zero
    /\ IdleValue /\ IdleCalibration /\ IdleMax /\ IdleMulti
    /\ pc = "idle" /\ res = NoResult

CallEuropean(s) ==
    /\ eur[s] = NoResult
    /\ eur' = [eur EXCEPT ![s] = EuropeanCallValue(argN, argV[s], argK)]
    /\ UNCHANGED <<argVars, amer, fv, calVars, maxVars, mulVars>>

CallAmerican ==
    /\ amer = NoResult
    /\ amer' = AmericanCallValue(argN, argV[1], argK)
    /\ UNCHANGED <<argVars, eur, fv, calVars, maxVars, mulVars>>

EvalPrice(s) ==
    /\ fv[s] = NoResult
    /\ fv' = [fv EXCEPT ![s] = Return(BinomialPrice(argN, argV[s], argK), <<>>)]
    /\ UNCHANGED <<argVars, eur, amer, calVars, maxVars, mulVars>>

NextValue ==
    \/ \E s \in 1..2 : CallEuropean(s)
    \/ CallAmerican
    \/ \E s \in 1..2 : EvalPrice(s)

SpecValue == InitValue /\ [][NextValue]_vars

\* ---------------------------------------------- properties of valuations
Valid(n, v, k) == n >= 0 /\ ValidV(v) /\ ValidK(k)

\* the continuation value of node (i,j) in a finished value grid
Continuation(C, i, j) ==
    RAdd(RMul(p, C[<<i, j + 1>>]), RMul(RSub(One, p), C[<<i + 1, j + 1>>]))

\* C1: for valid N, v, K the American value is at least the European value
\* and equal to it, and at no interior node does the exercise value (node
\* price minus K) exceed the continuation value.
C1_AmericanEqualsEuropean ==
    (Valid(argN, argV[1], argK) /\ amer.out = "value")
    => /\ eur[1].out = "value"
            => /\ RLeq(eur[1].val, amer.val)
               /\ amer.val = eur[1].val
       /\ \A j \in 0..(argN - 1) : \A i \in 0..j :
            RLeq(RSub(StockPrice(argV[1], i, j), argK), Continuation(amer.C, i, j))

\* both valuations returned for an in-the-money contract with an interior
\* node above the strike and an interior node below it
C1_Witness ==
    /\ Valid(argN, argV[1], argK) /\ argN >= 2 /\ RLt(Zero, argK)
    /\ amer.out = "value" /\ eur[1].out = "value"
    /\ RLt(Zero, amer.val)
    /\ \E j \in 1..(argN - 1) :
            /\ RLt(argK, StockPrice(argV[1], 0, j))
            /\ RLt(StockPrice(argV[1], j, j), argK)

\* C2: for valid N, v, K the terminal-distribution sum that vCalibration
\* uses as its price function equals the root value of EuropeanCallValue.
C2_SumEqualsBackwardInduction ==
    \A s \in 1..2 :
        (Valid(argN, argV[s], argK) /\ eur[s].out = "value" /\ fv[s].out = "value")
        => fv[s].val = eur[s].val

\* both computed for a contract whose terminal payoffs are partly zero and
\* partly positive
C2_Witness ==
    \E s \in 1..2 :
        /\ Valid(argN, argV[s], argK) /\ argN >= 2
        /\ eur[s].out = "value" /\ fv[s].out = "value"
        /\ RLt(Zero, fv[s].val)
        /\ RLeq(StockPrice(argV[s], argN, argN), argK)
        /\ RLt(argK, StockPrice(argV[s], 0, argN))

\* C8: for N >= 0, K > 0 and step factors v1 <= v2 in (0,1) the European
\* value at v1 is at most the value at v2, and so is the price sum of
\* vCalibration.
C8_MonotoneInV ==
    (argN >= 0 /\ RLt(Zero, argK) /\ ValidV(argV[1]) /\ ValidV(argV[2])
        /\ RLeq(argV[1], argV[2]))
    => /\ (eur[1].out = "value" /\ eur[2].out = "value")
            => RLeq(eur[1].val, eur[2].val)
       /\ (fv[1].out = "value" /\ fv[2].out = "value")
            => RLeq(fv[1].val, fv[2].val)

\* two different step factors priced, the larger strictly dearer
C8_Witness ==
    /\ argN >= 2 /\ RLt(Zero, argK) /\ ValidV(argV[1]) /\ ValidV(argV[2])
    /\ RLt(argV[1], argV[2])
    /\ eur[1].out = "value" /\ eur[2].out = "value"
    /\ fv[1].out = "value" /\ fv[2].out = "value"
    /\ RLt(eur[1].val, eur[2].val) /\ RLt(fv[1].val, fv[2].val)

\* C7: a valuation called with N < 0, v outside (0,1) or K < 0 ends in
\* InvalidParameterError; stated by its consequence that such a call never
\* returns a price.
C7_InvalidInputRejected ==
    /\ ~Valid(argN, argV[1], argK) => (eur[1].out # "value" /\ amer.out # "value")
    /\ ~Valid(argN, argV[2], argK) => eur[2].out # "value"

\* ================================================== calibration session
InitCalibration ==
    /\ argN \in NGrid
    /\ argK \in KGrid
    /\ argC \in CGrid
    /\ argV = <<Zero, Zero>>
    /\ IdleValue /\ IdleCalibration /\ IdleMax /\ IdleMulti
    /\ pc = "idle" /\ res = NoResult

CallvCalibration ==
    /\ root = NoResult
    /\ root' \in vCalibration(argN, argK, argC)
    /\ UNCHANGED <<argVars, valVars, back, maxVars, mulVars>>

\* the round trip: the calibrated step factor is priced again
RepriceRoot ==
    /\ root.out = "value"
    /\ back = NoResult
    /\ back' = EuropeanCallValue(argN, root.val, argK)
    /\ UNCHANGED <<argVars, valVars, root, maxVars, mulVars>>

NextCalibration ==
    \/ CallvCalibration
    \/ RepriceRoot

SpecCalibration == InitCalibration /\ [][NextCalibration]_vars

\* the least and the greatest value of the call over v in [0,1]
MinValue(N, K) == RMax(Zero, RSub(One, K))
MaxValue(N, K) == RMax(Zero, RSub(One, RDiv(K, RPow2(N))))

\* the step factors one grid step (the solver tolerance) below and above v
StepDown(v) == RMax(Zero, RSub(v, <<1, VDen>>))
StepUp(v) == IF RLt(One, RAdd(v, <<1, VDen>>)) THEN One ELSE RAdd(v, <<1, VDen>>)

\* price is met by EuropeanCallValue(N, v, K) to solver tolerance
WithinTolerance(N, v, K, price) ==
    /\ RLeq(EuropeanCallValue(N, StepDown(v), K).val, price)
    /\ RLeq(price, EuropeanCallValue(N, StepUp(v), K).val)

\* C3 (as claimed): for every target price strictly between 0 and 1-K
\* (K < 1) the bracket [0,1] has opposite signs, vCalibration returns a v in
\* [0,1], and EuropeanCallValue(N, v, K) equals the price to tolerance.
C3_RoundTripOriginal ==
    (argN >= 0 /\ ValidK(argK) /\ RLt(argK, One)
        /\ RLt(Zero, argC) /\ RLt(argC, RSub(One, argK)))
    => /\ root.out \in {"none", "value"}
       /\ back.out = "value" => WithinTolerance(argN, root.val, argK, argC)

\* C3 (amended): for every target price strictly between max(0, 1-K) and
\* max(0, 1 - K/2^N) the bracket [0,1] has opposite signs, vCalibration
\* returns a v in [0,1], and EuropeanCallValue(N, v, K) equals the price to
\* tolerance.
C3_RoundTrip ==
    (argN >= 0 /\ ValidK(argK)
        /\ RLt(MinValue(argN, argK), argC) /\ RLt(argC, MaxValue(argN, argK)))
    => /\ Sign(f(argN, argK, argC, Zero)) * Sign(f(argN, argK, argC, One)) < 0
       /\ root.out \in {"none", "value"}
       /\ root.out = "value" => (RLeq(Zero, root.val) /\ RLeq(root.val, One))
       /\ back.out = "value"
            => /\ WithinTolerance(argN, root.val, argK, argC)
               /\ RLeq(EuropeanCallValue(argN, StepDown(root.val), argK).val, back.val)
               /\ RLeq(back.val, EuropeanCallValue(argN, StepUp(root.val), argK).val)

\* a price inside the achievable range was calibrated and priced again
C3_Witness ==
    /\ argN >= 2 /\ RLt(Zero, argK)
    /\ RLt(MinValue(argN, argK), argC) /\ RLt(argC, MaxValue(argN, argK))
    /\ root.out = "value" /\ ValidV(root.val)
    /\ back.out = "value"

\* ================================================== expectedMaxPrice run
InitMax ==
    /\ argN \in 0..MaxNMax
    /\ \E v \in VGrid : argV = <<v, v>>
    /\ argK = Zero
    /\ argC = Zero
    /\ IdleValue /\ IdleCalibration /\ IdleMax /\ IdleMulti
    /\ pc = "start" /\ res = NoResult

\* P1 = np.zeros(...) and the three base-case writes
MaxBase ==
    /\ pc = "start"
    /\ P1' = P1Base(argN)
    /\ IF P1BaseFails(argN)
       THEN pc' = "done" /\ res' = Raise("IndexError") /\ loopJ' = loopJ
       ELSE pc' = "P1loop" /\ res' = res /\ loopJ' = 3
    /\ UNCHANGED <<argVars, valVars, calVars, P2, S, mulVars>>

\* an iteration of "for j in range(3,N+1)"
MaxForward ==
    /\ pc = "P1loop"
    /\ loopJ <= argN
    /\ P1' = P1Column(P1, argN, loopJ)
    /\ loopJ' = loopJ + 1
    /\ UNCHANGED <<argVars, valVars, calVars, pc, res, P2, S, mulVars>>

\* the forward loop is over: P1 is normalised and P2 is allocated
MaxForwardDone ==
    /\ pc = "P1loop"
    /\ loopJ > argN
    /\ P1' = P1Normalise(P1)
    /\ P2' = P2Last(argN)
    /\ loopJ' = argN - 1
    /\ pc' = "P2loop"
    /\ UNCHANGED <<argVars, valVars, calVars, res, S, mulVars>>

\* an iteration of "for j in range(N-1,-1,-1)"
MaxBackward ==
    /\ pc = "P2loop"
    /\ loopJ >= 0
    /\ P2' = P2Column(P2, argN, loopJ)
    /\ loopJ' = loopJ - 1
    /\ UNCHANGED <<argVars, valVars, calVars, pc, res, P1, S, mulVars>>

\* the backward loop is over: P2 is normalised and S is filled
MaxBackwardDone ==
    /\ pc = "P2loop"
    /\ loopJ < 0
    /\ P2' = P2Normalise(P2, argN)
    /\ S' = StockGrid(argN, argV[1])
    /\ pc' = "sum"
    /\ UNCHANGED <<argVars, valVars, calVars, res, loopJ, P1, mulVars>>

\* return np.sum(P1*P2*S)
MaxReturn ==
    /\ pc = "sum"
    /\ res' = Return(GridSum3(P1, P2, S, argN), <<>>)
    /\ pc' = "done"
    /\ UNCHANGED <<argVars, valVars, calVars, loopJ, P1, P2, S, mulVars>>

NextMax ==
    \/ MaxBase
    \/ MaxForward
    \/ MaxForwardDone
    \/ MaxBackward
    \/ MaxBackwardDone
    \/ MaxReturn

SpecMax == InitMax /\ [][NextMax]_vars

\* both grids hold probabilities: the two normalisations have run
Normalised == pc \in {"sum", "done"} /\ res.out # "IndexError"

\* sum(term(i) for i in range(j+1)): a sum over the levels of period j
LevelSum(P, j) == RSumTo([i \in 0..j |-> P[<<i, j>>]], j + 1)

\* the price path of the up/down sequence coded by c (bit t-1 set: up-move
\* at period t) and its running maximum
RECURSIVE PathPrice(_, _, _)
PathPrice(v, c, t) ==
    IF t = 0 THEN One
    ELSE RMul(PathPrice(v, c, t - 1),
              IF (c \div Pow2(t - 1)) % 2 = 1 THEN RAdd(One, v) ELSE RSub(One, v))

RECURSIVE RunningMax(_, _, _)
RunningMax(v, c, t) ==
    IF t = 0 THEN One ELSE RMax(RunningMax(v, c, t - 1), PathPrice(v, c, t))

ExpectedRunningMax(N, v) ==
    LET term == [c \in 0..(Pow2(N) - 1) |-> RunningMax(v, c, N)]
    IN RDiv(RSumTo(term, Pow2(N)), RPow2(N))

\* C4: for N >= 2 and 0 < v < 1, expectedMaxPrice(N, v) is the average over
\* all 2^N up/down sequences of the running maximum of the price path.
C4_IsExpectedRunningMax ==
    (pc = "done" /\ res.out = "value" /\ argN >= 2 /\ ValidV(argV[1]))
    => res.val = ExpectedRunningMax(argN, argV[1])

\* C5 (as claimed): after both grids are normalised every column of P1 and
\* every column of P2 sums to 1 over its levels.
C5_ColumnsSumToOne ==
    Normalised
    => \A j \in 0..argN : LevelSum(P1, j) = One /\ LevelSum(P2, j) = One

\* C5 (amended): after both grids are normalised, column j of P1 sums to 1
\* for j = 0 and to C(j-1, (j-1) div 2) / 2^j for j >= 1, and every entry
\* P2[i,j], i <= j, is C(N-j, (N-j) div 2) / 2^(N-j), so column j of P2 sums
\* to j+1 times that; every entry of both grids lies in [0,1].
C5_ColumnSums ==
    Normalised
    => \A j \in 0..argN :
        /\ LevelSum(P1, j) =
                IF j = 0 THEN One
                ELSE RDiv(FromInt(comb(j - 1, (j - 1) \div 2)), RPow2(j))
        /\ \A i \in 0..j :
                /\ P2[<<i, j>>] = RDiv(FromInt(comb(argN - j, (argN - j) \div 2)),
                                       RPow2(argN - j))
                /\ RLeq(Zero, P1[<<i, j>>]) /\ RLeq(P1[<<i, j>>], One)
                /\ RLeq(Zero, P2[<<i, j>>]) /\ RLeq(P2[<<i, j>>], One)
        /\ LevelSum(P2, j) =
                RMul(FromInt(j + 1),
                     RDiv(FromInt(comb(argN - j, (argN - j) \div 2)), RPow2(argN - j)))

\* the grids of a run long enough for both Dyck enumerations to count more
\* than one path
C5_Witness == Normalised /\ argN >= 6

\* C6: expectedMaxPrice completes without an index error for every N >= 0,
\* and returns 1 for N = 0.
C6_CompletesForSmallN ==
    /\ res.out # "IndexError"
    /\ (pc = "done" /\ argN = 0 /\ ValidV(argV[1])) => res = Return(One, <<>>)

\* sum of P1[i,j]*P2[i,j] over the nodes 0 <= i <= j <= N
NodeMass(A, B, N) ==
    LET col == [j \in 0..N |->
                    RSumTo([i \in 0..j |-> RMul(A[<<i, j>>], B[<<i, j>>])], j + 1)]
    IN RSumTo(col, N + 1)

\* C10: for N >= 2 the products P1[i,j]*P2[i,j] over all nodes sum to 1, and
\* P1 is 0 at every node with j >= 1 and 2i >= j and at every cell with i > j.
C10_MassIsOne ==
    (argN >= 2 /\ pc # "start")
    => /\ Normalised => NodeMass(P1, P2, argN) = One
       /\ \A x \in DOMAIN P1 :
            ((x[2] >= 1 /\ 2 * x[1] >= x[2]) \/ x[1] > x[2]) => P1[x] = Zero

C10_Witness ==
    /\ Normalised /\ argN >= 5
    /\ \E x \in DOMAIN P1 : x[1] >= 2 /\ RLt(Zero, RMul(P1[x], P2[x]))

\* ================================================ vCalibrationMulti run
MultiK == {Norm(n, KDen) : n \in KDen..(KDen + 1)}
MultiC == {Norm(n, CDen) : n \in 1..MaxCNum}

InitMulti ==
    /\ \E m \in 1..MaxM :
            /\ listN \in [1..m -> 1..MaxBlock]
            /\ listK \in [1..m -> MultiK]
            /\ listC \in [1..m -> MultiC]
            /\ V = [x \in 1..m |-> Zero]
    /\ loopI = 1
    /\ whileJ = 0
    /\ pc = "for" /\ res = NoResult
    /\ argN = 0 /\ argK = Zero /\ argC = Zero /\ argV = <<Zero, Zero>>
    /\ IdleValue /\ IdleCalibration /\ IdleMax

\* the branch i == 1: V[0] = brentq(f1, 0, 1)
MultiFirst ==
    /\ pc = "for" /\ loopI = 1 /\ loopI <= Len(listN)
    /\ \E r \in brentq([x \in 0..VDen |-> f1(listN, listK, listC, loopI, Norm(x, VDen))]) :
            IF r.out = "value"
            THEN V' = [V EXCEPT ![loopI] = r.val] /\ loopI' = loopI + 1
                 /\ pc' = pc /\ res' = res
            ELSE pc' = "done" /\ res' = r /\ V' = V /\ loopI' = loopI
    /\ UNCHANGED <<argVars, valVars, calVars, loopJ, P1, P2, S, listN, listK, listC, whileJ>>

\* the else branch is entered: j = i
MultiElse ==
    /\ pc = "for" /\ loopI >= 2 /\ loopI <= Len(listN)
    /\ whileJ' = loopI
    /\ pc' = "while"
    /\ UNCHANGED <<argVars, valVars, calVars, res, loopJ, P1, P2, S, listN, listK, listC, V, loopI>>

\* an iteration of "while j > 1": f2 is bound to a new lambda (which holds
\* no value of j), then j -= 1
MultiWhile ==
    /\ pc = "while" /\ whileJ > 1
    /\ whileJ' = whileJ - 1
    /\ UNCHANGED <<argVars, valVars, calVars, pc, res, loopJ, P1, P2, S, listN, listK, listC, V, loopI>>

\* the while loop is over: V[i-1] = brentq(g, 0, 1)
MultiSolve ==
    /\ pc = "while" /\ whileJ <= 1
    /\ \E r \in brentq([x \in 0..VDen |->
                            g(listN, listK, listC, V, whileJ, loopI, Norm(x, VDen))]) :
            IF r.out = "value"
            THEN V' = [V EXCEPT ![loopI] = r.val] /\ loopI' = loopI + 1
                 /\ pc' = "for" /\ res' = res
            ELSE pc' = "done" /\ res' = r /\ V' = V /\ loopI' = loopI
    /\ UNCHANGED <<argVars, valVars, calVars, loopJ, P1, P2, S, listN, listK, listC, whileJ>>

\* return V
MultiReturn ==
    /\ pc = "for" /\ loopI > Len(listN)
    /\ res' = Return(V, <<>>)
    /\ pc' = "done"
    /\ UNCHANGED <<argVars, valVars, calVars, loopJ, P1, P2, S, mulVars>>

NextMulti ==
    \/ MultiFirst
    \/ MultiElse
    \/ MultiWhile
    \/ MultiSolve
    \/ MultiReturn

SpecMulti == InitMulti /\ [][NextMulti]_vars

\* the nested expectation over the binomial outcomes of blocks b..i of the
\* payoff max(0, product of block factors - K_i), where blocks before i use
\* their solved step factor and their own length and block i uses v
RECURSIVE NestedExpectation(_, _, _, _)
NestedExpectation(i, v, b, prod) ==
    IF b > i THEN RMax(Zero, RSub(prod, listK[i]))
    ELSE LET w == IF b < i THEN V[b] ELSE v
             term == [k \in 0..listN[b] |->
                RMul(FromInt(comb(listN[b], k)),
                     NestedExpectation(i, v, b + 1,
                        RMul(prod, RMul(RPow(RAdd(One, w), k),
                                        RPow(RSub(One, w), listN[b] - k)))))]
         IN RDiv(RSumTo(term, listN[b] + 1), RPow2(listN[b]))

\* C9: when the function handed to the root-finder for v_i, i >= 2, is
\* evaluated, it is the nested expectation over the outcomes of blocks 1..i
\* (solved v_1..v_(i-1) with N_1..N_(i-1), the unknown v with N_i) of
\* max(0, product - K_i), minus C_i; and solving v_i leaves V[0..i-2] as
\* they were.
C9_ComposedFunction ==
    (pc = "while" /\ whileJ <= 1)
    => \A x \in 0..VDen :
        g(listN, listK, listC, V, whileJ, loopI, Norm(x, VDen))
            = RSub(NestedExpectation(loopI, Norm(x, VDen), 1, One), listC[loopI])

====
